---- MODULE Spec2Model ----
(***************************************************************************)
(* A model of the permissioned-ledger core of ai-healthchain-project:      *)
(* the voting consensus engine (server/src/features/consensus) over the    *)
(* hash-linked ledger and the Merkle commitment of each block.             *)
(*                                                                         *)
(* Digests are modelled symbolically: hash(d) is the term <<"H", d>>, an   *)
(* injective (collision-free) SHA-256, and the concatenation of two        *)
(* fixed-width hex digests is the pair of them.                            *)
(***************************************************************************)
EXTENDS Integers, Sequences, FiniteSets, TLC

\* ------------------------------------------------------------------ bounds
MaxNodes == 10     \* largest roster the network is configured with
MaxBatch == 2      \* longest transaction batch handed to proposeBlock
MaxTime == 2       \* last value of the clock (Date.now())
MaxChain == 2      \* longest local chain
MaxPending == 2    \* most proposals kept in pendingValidations
MaxCands == 2      \* most candidate chains in one syncChain call
MaxRecords == 8    \* longest record list a Merkle tree is built over
MaxEntries == 2    \* most entries in one verifyBatch call
MaxConsents == 3   \* most consent records granted
MaxRoots == 2      \* most Merkle roots stored on chain

\* this.consensusThreshold = 0.67, as a percentage
ThresholdPercent == 67

VARIABLES
    chain,               \* blockchain: the local ledger, chain[1] the genesis block
    pendingValidations,  \* engine.pendingValidations: blockHash -> {proposal, votes}
    networkNodes,        \* nodeManager.getNetworkNodes(): the roster
    now,                 \* Date.now()
    treeData,            \* a MerkleTree instance and the records it was built over
    held,                \* the votes list of a ConsensusStatus a caller kept
    consentContract,     \* ConsentManagement: _consents, _activeConsents, the id counter
    dataIntegrity,       \* DataIntegrity: _merkleRoots, _recordSetRoots, _allRoots
    last                 \* the last step taken: the call made and what it returned

vars == <<chain, pendingValidations, networkNodes, now, treeData, held,
          consentContract, dataIntegrity, last>>

\* -------------------------------------------------------------- node manager
\* nodeManager.getNodeId(): the identity of the local node
NodeId == 1

\* a node id no roster holds
UnknownNode == MaxNodes + 90

\* the rosters a network is configured with: nodes 1..k
RosterSizes == {1, 3, 4, MaxNodes}

\* nodeManager.removeNode(nodeId): the roster without the node, and whether it was there
removeNode(nodes, nodeId) ==
    [nodes |-> nodes \ {nodeId}, removed |-> nodeId \in nodes]

\* ------------------------------------------------------------------- hashing
\* MerkleTree.hash: SHA-256 of the data's string form
hash(data) == <<"H", data>>

\* `left + right` of two hex digests
Concat(left, right) == <<left, right>>

\* a mutant of NextLevel: the unpaired last node is carried up as it is
NextLevelPromote(currentLevel) ==
    [i \in 1..((Len(currentLevel) + 1) \div 2) |->
        IF 2 * i <= Len(currentLevel)
        THEN hash(Concat(currentLevel[2 * i - 1], currentLevel[2 * i]))
        ELSE currentLevel[2 * i - 1]]

\* a mutant of NextLevel: an unpaired last node is hashed with the empty string
NextLevelPadEmpty(currentLevel) ==
    [i \in 1..((Len(currentLevel) + 1) \div 2) |->
        IF 2 * i <= Len(currentLevel)
        THEN hash(Concat(currentLevel[2 * i - 1], currentLevel[2 * i]))
        ELSE hash(Concat(currentLevel[2 * i - 1], <<>>))]

\* the next level of the tree: adjacent pairs, the last node paired with itself
NextLevel(currentLevel) ==
    [i \in 1..((Len(currentLevel) + 1) \div 2) |->
        IF 2 * i <= Len(currentLevel)
        THEN hash(Concat(currentLevel[2 * i - 1], currentLevel[2 * i]))
        ELSE hash(Concat(currentLevel[2 * i - 1], currentLevel[2 * i - 1]))]

RECURSIVE ReduceLevels(_)
\* the while loop of buildTree: reduce until one node remains
ReduceLevels(currentLevel) ==
    IF Len(currentLevel) > 1 THEN ReduceLevels(NextLevel(currentLevel))
    ELSE currentLevel[1]

\* MerkleTree.buildTree(data) followed by the root it leaves
buildTreeRoot(data) ==
    IF Len(data) = 0 THEN hash(<<>>)
    ELSE ReduceLevels([i \in 1..Len(data) |-> hash(data[i])])

\* --------------------------------------------------------------- Merkle tree
\* Strings are sequences: a record "a" is <<"a">>, the empty string '' is <<>>.
\* null and undefined: a value no string and no digest equals
Null == <<"null", "null", "null">>

EmptyString == <<>>

\* the values of a string-or-missing field that JavaScript takes for false
Falsy(v) == v = Null \/ v = EmptyString

RECURSIVE BuildLevels(_)
\* buildTree: this.levels, one level pushed per turn of the while loop
BuildLevels(levels) ==
    LET currentLevel == levels[Len(levels)]
    IN IF Len(currentLevel) > 1
       THEN BuildLevels(Append(levels, NextLevel(currentLevel)))
       ELSE levels

\* tree.buildTree(data) on the instance t: the fields it leaves (the branch for
\* no data assigns root and levels only)
buildTree(t, data) ==
    IF Len(data) = 0
    THEN [leaves |-> t.leaves, root |-> hash(EmptyString),
          levels |-> <<<<hash(EmptyString)>>>>]
    ELSE LET leaves == [i \in 1..Len(data) |-> hash(data[i])]
             levels == BuildLevels(<<leaves>>)
         IN [leaves |-> leaves, root |-> levels[Len(levels)][1], levels |-> levels]

\* new MerkleTree(data): the tree is built only when there is data
MerkleTree(data) ==
    LET fresh == [leaves |-> <<>>, root |-> Null, levels |-> <<>>]
    IN IF Len(data) > 0 THEN buildTree(fresh, data) ELSE fresh

\* tree.getRoot()
getRoot(t) ==
    IF Falsy(t.root) THEN [error |-> "Tree has not been built", root |-> Null]
    ELSE [error |-> "", root |-> t.root]

\* no proof at all (null), also what a failed getProof leaves the caller with
NoProof ==
    [present |-> FALSE, leaf |-> Null, root |-> Null,
     path |-> [kind |-> "missing", items |-> <<>>]]

\* a mutant of FindIndex: the first leaf is taken when no leaf matches
FindIndexOrFirst(leaves, leafHash) ==
    IF \E i \in 1..Len(leaves) : leaves[i] = leafHash
    THEN (CHOOSE i \in 1..Len(leaves) :
             /\ leaves[i] = leafHash
             /\ \A j \in 1..(i - 1) : leaves[j] # leafHash) - 1
    ELSE 0

\* this.leaves.findIndex(hash => hash === leafHash): 0-based, -1 when no leaf matches
FindIndex(leaves, leafHash) ==
    IF \E i \in 1..Len(leaves) : leaves[i] = leafHash
    THEN (CHOOSE i \in 1..Len(leaves) :
             /\ leaves[i] = leafHash
             /\ \A j \in 1..(i - 1) : leaves[j] # leafHash) - 1
    ELSE -1

\* a mutant of PathEntry: the unpaired last node of a level takes its left neighbour
PathEntryNoDuplicate(currentLevel, currentIndex) ==
    LET isLeft == currentIndex % 2 = 0
        siblingIndex == IF isLeft /\ currentIndex + 1 < Len(currentLevel)
                        THEN currentIndex + 1
                        ELSE IF currentIndex > 0 THEN currentIndex - 1 ELSE currentIndex
    IN [present |-> TRUE, hash |-> currentLevel[siblingIndex + 1],
        position |-> IF siblingIndex > currentIndex THEN "right" ELSE "left"]

\* getProof: the path entry of one level for the node at the 0-based currentIndex;
\* the unpaired last node of a level is its own sibling
PathEntry(currentLevel, currentIndex) ==
    LET isLeft == currentIndex % 2 = 0
        siblingIndex == IF isLeft THEN currentIndex + 1 ELSE currentIndex - 1
    IN IF siblingIndex < Len(currentLevel)
       THEN [present |-> TRUE, hash |-> currentLevel[siblingIndex + 1],
             position |-> IF isLeft THEN "right" ELSE "left"]
       ELSE [present |-> TRUE, hash |-> currentLevel[currentIndex + 1],
             position |-> IF isLeft THEN "right" ELSE "left"]

RECURSIVE BuildPath(_, _, _, _)
\* getProof: the loop from the leaves (level 0) up to the level below the root
BuildPath(levels, level, currentIndex, path) ==
    IF level < Len(levels) - 1
    THEN BuildPath(levels, level + 1, currentIndex \div 2,
                   Append(path, PathEntry(levels[level + 1], currentIndex)))
    ELSE path

\* tree.getProof(data)
getProof(t, data) ==
    IF Len(t.leaves) = 0 THEN [error |-> "Tree is empty", proof |-> NoProof]
    ELSE LET leafHash == hash(data)
             leafIndex == FindIndex(t.leaves, leafHash)
         IN IF leafIndex = -1
            THEN [error |-> "Data item not found in tree", proof |-> NoProof]
            ELSE [error |-> "",
                  proof |-> [present |-> TRUE, leaf |-> leafHash, root |-> t.root,
                             path |-> [kind |-> "array",
                                       items |-> BuildPath(t.levels, 0, leafIndex, <<>>)]]]

RECURSIVE FoldPath(_, _, _)
\* verifyProof: the loop over proof.path from entry i on; reading a field of an
\* entry that is null or undefined throws
FoldPath(items, i, currentHash) ==
    IF i > Len(items) THEN [threw |-> FALSE, hash |-> currentHash]
    ELSE LET sibling == items[i]
         IN IF ~sibling.present THEN [threw |-> TRUE, hash |-> currentHash]
            ELSE IF sibling.position = "left"
            THEN FoldPath(items, i + 1, hash(Concat(sibling.hash, currentHash)))
            ELSE FoldPath(items, i + 1, hash(Concat(currentHash, sibling.hash)))

\* MerkleTree.verifyProof(data, proof, root): what it returns, or that it threw
verifyProof(data, proof, root) ==
    IF ~proof.present \/ proof.path.kind = "missing" \/ Falsy(proof.root)
    THEN [threw |-> FALSE, value |-> FALSE]
    ELSE LET expectedRoot == IF Falsy(root) THEN proof.root ELSE root
             leafHash == hash(data)
         IN IF proof.leaf # leafHash THEN [threw |-> FALSE, value |-> FALSE]
            ELSE IF proof.path.kind # "array" THEN [threw |-> TRUE, value |-> FALSE]
            ELSE LET folded == FoldPath(proof.path.items, 1, leafHash)
                 IN IF folded.threw THEN [threw |-> TRUE, value |-> FALSE]
                    ELSE [threw |-> FALSE, value |-> folded.hash = expectedRoot]

RECURSIVE BatchFrom(_, _)
\* verifyBatch: the loop over the entries from entry i on
BatchFrom(proofs, i) ==
    IF i > Len(proofs) THEN [threw |-> FALSE, value |-> TRUE]
    ELSE LET entry == proofs[i]
         IN IF Falsy(entry.data) \/ ~entry.proof.present
            THEN [threw |-> FALSE, value |-> FALSE]
            ELSE LET isValid == verifyProof(entry.data, entry.proof, entry.root)
                 IN IF isValid.threw THEN isValid
                    ELSE IF ~isValid.value THEN [threw |-> FALSE, value |-> FALSE]
                    ELSE BatchFrom(proofs, i + 1)

\* MerkleTree.verifyBatch(proofs) on an array of {data, proof, root}
verifyBatch(proofs) ==
    IF Len(proofs) = 0 THEN [threw |-> FALSE, value |-> FALSE]
    ELSE BatchFrom(proofs, 1)

\* -------------------------------------------------------------------- ledger
TxA == [id |-> "tx-a", from |-> "patient-1", to |-> "clinician-1"]
TxB == [id |-> "tx-b", from |-> "patient-2", to |-> "clinician-1"]
TxBad == [id |-> "tx-x", from |-> "", to |-> "clinician-1"]
Transactions == {TxA, TxB, TxBad}

\* a batch of n valid transactions
ValidBatch(n) == [i \in 1..n |-> IF i % 2 = 1 THEN TxA ELSE TxB]

\* the batches a caller submits: the valid batches up to MaxBatch transactions
\* (the empty one included) and each with one transaction replaced by an invalid one
Batches ==
    {ValidBatch(n) : n \in 0..MaxBatch}
    \cup UNION {{[ValidBatch(n) EXCEPT ![k] = TxBad] : k \in 1..n} : n \in 1..MaxBatch}

\* the previousHash of the genesis block
ZeroHash == <<"0">>

\* Ledger.isValidTransaction: required fields present, from/to non-empty
isValidTransaction(tx) == tx.from # "" /\ tx.to # ""

\* Ledger.calculateMerkleRoot: the root of the Merkle tree over the transactions
calculateMerkleRoot(transactions) == buildTreeRoot(transactions)

\* Ledger.calculateBlockHash: digest over index, timestamp, transactions,
\* previousHash, merkleRoot, nonce
calculateBlockHash(block) ==
    hash([index |-> block.index, timestamp |-> block.timestamp,
          transactions |-> block.transactions, previousHash |-> block.previousHash,
          merkleRoot |-> block.merkleRoot, nonce |-> block.nonce])

\* a block with its Merkle root and hash computed by the ledger
SealBlock(index, timestamp, transactions, previousHash) ==
    LET header == [index |-> index, timestamp |-> timestamp,
                   transactions |-> transactions, previousHash |-> previousHash,
                   nonce |-> 0,
                   merkleRoot |-> calculateMerkleRoot(transactions)]
    IN [index |-> header.index, timestamp |-> header.timestamp,
        transactions |-> header.transactions, previousHash |-> header.previousHash,
        nonce |-> header.nonce, merkleRoot |-> header.merkleRoot,
        hash |-> calculateBlockHash(header)]

\* Ledger.createGenesisBlock: index 0, previousHash "0", no transactions
GenesisBlock == SealBlock(0, 0, <<>>, ZeroHash)

getChainLength(ch) == Len(ch)
getLatestBlock(ch) == ch[Len(ch)]

\* ------------------------------------------------------------ consensus engine
\* a mutant of RequiredAgreement: the product rounded down
RequiredAgreementFloor(totalNodes) == (totalNodes * ThresholdPercent) \div 100

\* Math.ceil(totalNodes * this.consensusThreshold); the integer form agrees with
\* the floating-point product for every roster below 1500 nodes
RequiredAgreement(totalNodes) == (totalNodes * ThresholdPercent + 99) \div 100

\* a mutant of InvalidTransactions: only the first transaction is checked
InvalidTransactionsFirstOnly(transactions) ==
    SelectSeq(SubSeq(transactions, 1, 1), LAMBDA tx : ~isValidTransaction(tx))

\* proposeBlock: the transactions of the batch that fail isValidTransaction
InvalidTransactions(transactions) ==
    SelectSeq(transactions, LAMBDA tx : ~isValidTransaction(tx))

\* a mutant of BlockProposal: the block is built on the genesis sentinel, not the head
BlockProposalNoHead(transactions, ch, t) ==
    SealBlock(getChainLength(ch), t, transactions, ZeroHash)

\* proposeBlock: the candidate block built on the current head
BlockProposal(transactions, ch, t) ==
    LET blockProposal ==
            [index |-> getChainLength(ch),
             timestamp |-> t,
             transactions |-> transactions,
             previousHash |-> IF Len(ch) > 0 THEN getLatestBlock(ch).hash ELSE ZeroHash,
             nonce |-> 0]
        withRoot == [index |-> blockProposal.index,
                     timestamp |-> blockProposal.timestamp,
                     transactions |-> blockProposal.transactions,
                     previousHash |-> blockProposal.previousHash,
                     nonce |-> blockProposal.nonce,
                     merkleRoot |-> calculateMerkleRoot(blockProposal.transactions)]
    IN [index |-> withRoot.index, timestamp |-> withRoot.timestamp,
        transactions |-> withRoot.transactions, previousHash |-> withRoot.previousHash,
        nonce |-> withRoot.nonce, merkleRoot |-> withRoot.merkleRoot,
        hash |-> calculateBlockHash(withRoot)]

\* validateBlockProposal: the structure check. `!blockProposal.index !== undefined`
\* compares the boolean !index with undefined, which never are equal, so the
\* disjunction is true of every block.
StructureCheckFails(blockProposal) ==
    LET notIndex == (blockProposal.index = 0)
    IN \/ notIndex \in BOOLEAN
       \/ blockProposal.timestamp = 0
       \/ blockProposal.previousHash = <<>>
       \/ blockProposal.hash = <<>>
       \/ blockProposal.merkleRoot = <<>>

\* validateBlockProposal(blockProposal) against the chain ch
validateBlockProposal(blockProposal, ch) ==
    IF StructureCheckFails(blockProposal) THEN FALSE
    ELSE IF \E i \in 1..Len(blockProposal.transactions) :
                ~isValidTransaction(blockProposal.transactions[i]) THEN FALSE
    ELSE IF blockProposal.merkleRoot # calculateMerkleRoot(blockProposal.transactions)
         THEN FALSE
    ELSE IF Len(ch) > 0 /\ blockProposal.previousHash # getLatestBlock(ch).hash THEN FALSE
    ELSE IF blockProposal.hash # calculateBlockHash(blockProposal) THEN FALSE
    ELSE IF blockProposal.index # getChainLength(ch) THEN FALSE
    ELSE TRUE

\* a mutant of VotesAfter: the vote is added whether or not the node voted
VotesAfterAlwaysAppend(votes, vote) == Append(votes, vote)

\* voteOnBlock: the votes of the proposal after the vote `vote` of a node;
\* a node that already voted changes nothing
VotesAfter(votes, vote) ==
    IF \E i \in 1..Len(votes) : votes[i].nodeId = vote.nodeId
    THEN votes
    ELSE Append(votes, vote)

\* voteOnBlock: the vote returned, the existing one when the node already voted
VoteReturned(votes, vote) ==
    IF \E i \in 1..Len(votes) : votes[i].nodeId = vote.nodeId
    THEN votes[CHOOSE i \in 1..Len(votes) :
                 /\ votes[i].nodeId = vote.nodeId
                 /\ \A j \in 1..(i - 1) : votes[j].nodeId # vote.nodeId]
    ELSE vote

\* voteOnBlock(blockHash, isValid) on a known proposal: the new map and the vote;
\* isValidArg is "true", "false", or "null" when the argument is omitted
voteOnBlock(pv, blockHash, isValidArg, ch, t) ==
    LET validation == pv[blockHash]
        isValid == IF isValidArg = "null"
                   THEN validateBlockProposal(validation.proposal.block, ch)
                   ELSE isValidArg = "true"
        vote == [blockHash |-> blockHash, nodeId |-> NodeId,
                 isValid |-> isValid, timestamp |-> t]
    IN [pv |-> [pv EXCEPT ![blockHash].votes = VotesAfter(@, vote)],
        vote |-> VoteReturned(validation.votes, vote)]

\* checkConsensus: the number of votes with isValid === true
AgreementCount(votes) ==
    Cardinality({i \in 1..Len(votes) : votes[i].isValid = TRUE})

\* checkConsensus(blockHash)
checkConsensus(pv, blockHash, nodes) ==
    IF blockHash \notin DOMAIN pv
    THEN [blockHash |-> blockHash, found |-> FALSE, reached |-> FALSE,
          reason |-> "Proposal not found"]
    ELSE LET totalNodes == Cardinality(nodes)
             votes == pv[blockHash].votes
             agreementCount == AgreementCount(votes)
             requiredAgreement == RequiredAgreement(totalNodes)
         IN [blockHash |-> blockHash, found |-> TRUE, votes |-> votes,
             totalNodes |-> totalNodes, agreementCount |-> agreementCount,
             requiredAgreement |-> requiredAgreement,
             threshold |-> ThresholdPercent,
             reached |-> agreementCount >= requiredAgreement]

\* ------------------------------------------------------ ConsentManagement.sol
\* address(0)
ZeroAddress == "0x0"

Patients == {"patient-1"}
Clinicians == {"clinician-1"}
ConsentTypes == {"DataAccess", "AIAnalysis"}

\* the accounts holding PATIENT_ROLE, CLINICIAN_ROLE and ADMIN_ROLE
PatientRole == Patients
ClinicianRole == Clinicians
AdminRole == {"admin"}

\* the callers of revokeConsent: the patient, an admin, and an account that is neither
Senders == Patients \cup AdminRole \cup {"stranger"}

\* the keys of _activeConsents
ConsentKeys == Patients \X Clinicians \X ConsentTypes

\* the expiresAt arguments: 0 (no expiration) and the timestamps before the last
ExpiryInputs == 0..(MaxTime - 1)

\* the contract after initialize: no record, no active consent; the record with
\* consentId i is consents[i], and 0 is bytes32(0)
ConsentContractInit ==
    [consents |-> <<>>, activeConsents |-> [key \in ConsentKeys |-> 0]]

\* consent.expiresAt > 0 && consent.expiresAt < block.timestamp
Expired(consent, timestamp) == consent.expiresAt > 0 /\ consent.expiresAt < timestamp

\* grantConsent: the check for an existing active consent, true when the require fails
ActiveConsentExists(c, key, timestamp) ==
    LET existingConsentId == c.activeConsents[key]
    IN /\ existingConsentId # 0
       /\ ~(\/ c.consents[existingConsentId].status # "Granted"
            \/ Expired(c.consents[existingConsentId], timestamp))

\* grantConsent: the message of the require that fails, "" when none does
grantConsentError(c, patientId, clinicianId, consentType, timestamp) ==
    IF patientId = ZeroAddress THEN "Invalid patient address"
    ELSE IF clinicianId = ZeroAddress THEN "Invalid clinician address"
    ELSE IF ~(clinicianId \in ClinicianRole \/ patientId \in PatientRole)
    THEN "Unauthorized"
    ELSE IF ActiveConsentExists(c, <<patientId, clinicianId, consentType>>, timestamp)
    THEN "Active consent already exists"
    ELSE ""

\* grantConsent: the contract after the record is stored; the counter is the
\* number of records, and the consentId hashes it, so it is the id
grantConsent(c, patientId, clinicianId, consentType, expiresAt, timestamp) ==
    LET consentId == Len(c.consents) + 1
        newConsent == [consentId |-> consentId, patientId |-> patientId,
                       clinicianId |-> clinicianId, consentType |-> consentType,
                       status |-> "Granted", grantedAt |-> timestamp,
                       expiresAt |-> expiresAt]
    IN [consents |-> Append(c.consents, newConsent),
        activeConsents |->
            [c.activeConsents EXCEPT ![<<patientId, clinicianId, consentType>>] = consentId]]

\* revokeConsent: the message of the require that fails, "" when none does
revokeConsentError(c, consentId, sender) ==
    IF consentId \notin 1..Len(c.consents) THEN "Consent not found"
    ELSE IF c.consents[consentId].status # "Granted" THEN "Consent not active"
    ELSE IF ~(sender = c.consents[consentId].patientId \/ sender \in AdminRole)
    THEN "Unauthorized to revoke"
    ELSE ""

\* revokeConsent: the record is marked Revoked and the _activeConsents entry of
\* its patient, clinician and type is deleted, whichever record it points at
revokeConsent(c, consentId) ==
    LET consent == c.consents[consentId]
    IN [consents |-> [c.consents EXCEPT ![consentId].status = "Revoked"],
        activeConsents |->
            [c.activeConsents EXCEPT
                ![<<consent.patientId, consent.clinicianId, consent.consentType>>] = 0]]

\* hasValidConsent(patientId, clinicianId, consentType)
hasValidConsent(c, key, timestamp) ==
    LET consentId == c.activeConsents[key]
    IN IF consentId = 0 THEN FALSE
       ELSE IF c.consents[consentId].status # "Granted" THEN FALSE
       ELSE IF Expired(c.consents[consentId], timestamp) THEN FALSE
       ELSE TRUE

\* --------------------------------------------------------- DataIntegrity.sol
\* the root arguments: bytes32(0) and the roots 1..MaxRoots
RootValues == 0..MaxRoots

\* the recordSetId arguments, 0 being bytes32(0)
RecordSetIds == {0, 1, 2}

\* the recordCount arguments
RecordCounts == {0, 5}

\* the accounts holding VERIFIER_ROLE
VerifierRole == {"verifier"}

\* the callers of storeMerkleRoot
IntegritySenders == AdminRole \cup VerifierRole \cup {"stranger"}

\* the value of _merkleRoots at a root never stored
ZeroRecord ==
    [root |-> 0, recordSetId |-> 0, timestamp |-> 0, recordCount |-> 0, storedBy |-> ZeroAddress]

\* the contract after initialize
DataIntegrityInit ==
    [merkleRoots |-> [root \in RootValues \ {0} |-> ZeroRecord],
     recordSetRoots |-> [recordSetId \in RecordSetIds \ {0} |-> <<>>],
     allRoots |-> <<>>]

\* a mutant of RootStored: no root counts as stored
RootStoredNever(d, root) == FALSE

\* storeMerkleRoot: _merkleRoots[root].root != bytes32(0)
RootStored(d, root) == d.merkleRoots[root].root # 0

\* storeMerkleRoot: the message of the require that fails, "" when none does
storeMerkleRootError(d, root, recordSetId, recordCount, sender) ==
    IF root = 0 THEN "Invalid root"
    ELSE IF recordSetId = 0 THEN "Invalid record set ID"
    ELSE IF ~(recordCount > 0) THEN "Invalid record count"
    ELSE IF ~(sender \in AdminRole \/ sender \in VerifierRole) THEN "Unauthorized"
    ELSE IF RootStored(d, root) THEN "Root already stored"
    ELSE ""

\* storeMerkleRoot: the contract after the record is stored
storeMerkleRoot(d, root, recordSetId, recordCount, sender, timestamp) ==
    LET record == [root |-> root, recordSetId |-> recordSetId, timestamp |-> timestamp,
                   recordCount |-> recordCount, storedBy |-> sender]
    IN [merkleRoots |-> [d.merkleRoots EXCEPT ![root] = record],
        recordSetRoots |-> [d.recordSetRoots EXCEPT ![recordSetId] = Append(@, root)],
        allRoots |-> Append(d.allRoots, root)]

\* verifyMerkleRoot(root): whether the root exists, and its record
verifyMerkleRoot(d, root) ==
    IF root = 0 THEN [exists |-> FALSE, record |-> ZeroRecord]
    ELSE [exists |-> d.merkleRoots[root].root # 0, record |-> d.merkleRoots[root]]

\* no ConsensusStatus kept by a caller yet
NoStatusHeld == [kept |-> FALSE, blockHash |-> ZeroHash, votes |-> <<>>]

\* ------------------------------------------------------------------- actions
Init ==
    /\ chain = <<GenesisBlock>>
    /\ pendingValidations = <<>>
    /\ \E k \in RosterSizes : networkNodes = 1..k
    /\ now = 1
    /\ treeData = [tree |-> MerkleTree(<<>>), records |-> <<>>]
    /\ held = NoStatusHeld
    /\ consentContract = ConsentContractInit
    /\ dataIntegrity = DataIntegrityInit
    /\ last = [op |-> "construct"]

\* Date.now() advances
Tick ==
    /\ now < MaxTime
    /\ now' = now + 1
    /\ last' = [op |-> "tick"]
    /\ UNCHANGED <<held, consentContract, dataIntegrity, treeData, chain, pendingValidations, networkNodes>>

\* engine.proposeBlock(transactions)
ProposeBlock(transactions) ==
    IF Len(transactions) = 0
    THEN /\ last' = [op |-> "proposeBlock", transactions |-> transactions,
                     error |-> "Transactions array is required and cannot be empty"]
         /\ UNCHANGED <<held, consentContract, dataIntegrity, treeData, chain, pendingValidations, networkNodes, now>>
    ELSE IF Len(InvalidTransactions(transactions)) > 0
    THEN /\ last' = [op |-> "proposeBlock", transactions |-> transactions,
                     error |-> "Invalid transactions found"]
         /\ UNCHANGED <<held, consentContract, dataIntegrity, treeData, chain, pendingValidations, networkNodes, now>>
    ELSE LET blockProposal == BlockProposal(transactions, chain, now)
             proposalId == blockProposal.hash
             registered ==
                 [h \in DOMAIN pendingValidations \cup {proposalId} |->
                     IF h = proposalId
                     THEN [proposal |-> [block |-> blockProposal,
                                         proposerId |-> NodeId,
                                         timestamp |-> now],
                           votes |-> <<>>]
                     ELSE pendingValidations[h]]
             voted == voteOnBlock(registered, proposalId, "true", chain, now)
         IN /\ Cardinality(DOMAIN registered) <= MaxPending
            /\ pendingValidations' = voted.pv
            /\ last' = [op |-> "proposeBlock", transactions |-> transactions,
                        error |-> "", proposalId |-> proposalId,
                        block |-> blockProposal,
                        consensus |-> checkConsensus(voted.pv, proposalId, networkNodes),
                        vote |-> voted.vote]
            /\ UNCHANGED <<held, consentContract, dataIntegrity, treeData, chain, networkNodes, now>>

\* a mutant of HeldVotesAfterPush: the status carries validation.votes itself
HeldVotesShared(heldVotes, votes) == votes

\* checkConsensus returns `votes: [...votes]`, a copy: the list a caller holds
\* stays as it is when a later vote is pushed into validation.votes
HeldVotesAfterPush(heldVotes, votes) == heldVotes

\* a block hash no proposal has
UnknownHash == calculateBlockHash(SealBlock(MaxChain + 7, 0, <<>>, ZeroHash))

\* the nodes a vote transport relays votes from
VoteSources == {n \in networkNodes : n <= 3}

\* service.voteOnBlock(blockHash, isValid), the call relayed for node source:
\* the engine's voteOnBlock, then checkConsensus
VoteOnBlock(blockHash, isValidArg, source) ==
    IF blockHash \notin DOMAIN pendingValidations
    THEN /\ last' = [op |-> "voteOnBlock", blockHash |-> blockHash,
                     isValid |-> isValidArg, source |-> source,
                     error |-> "Block proposal not found"]
         /\ UNCHANGED <<held, consentContract, dataIntegrity, treeData, chain, pendingValidations, networkNodes, now>>
    ELSE LET voted == voteOnBlock(pendingValidations, blockHash, isValidArg, chain, now)
         IN /\ pendingValidations' = voted.pv
            /\ last' = [op |-> "voteOnBlock", blockHash |-> blockHash,
                        isValid |-> isValidArg, source |-> source,
                        error |-> "", vote |-> voted.vote,
                        consensus |-> checkConsensus(voted.pv, blockHash, networkNodes)]
            /\ held' = IF held.kept /\ held.blockHash = blockHash
                       THEN [held EXCEPT
                                !.votes = HeldVotesAfterPush(@, voted.pv[blockHash].votes)]
                       ELSE held
            /\ UNCHANGED <<consentContract, dataIntegrity, treeData, chain, networkNodes, now>>

\* engine.checkConsensus(blockHash)
CheckConsensus(blockHash) ==
    /\ last' = [op |-> "checkConsensus", blockHash |-> blockHash,
                consensus |-> checkConsensus(pendingValidations, blockHash, networkNodes)]
    /\ UNCHANGED <<held, consentContract, dataIntegrity, treeData, chain, pendingValidations, networkNodes, now>>

\* engine.checkConsensus(blockHash) by a caller that keeps the votes list returned
KeepConsensus(blockHash) ==
    LET status == checkConsensus(pendingValidations, blockHash, networkNodes)
    IN /\ blockHash \in DOMAIN pendingValidations
       /\ last' = [op |-> "checkConsensus", blockHash |-> blockHash, consensus |-> status]
       /\ held' = [kept |-> TRUE, blockHash |-> blockHash, votes |-> status.votes]
       /\ UNCHANGED <<consentContract, dataIntegrity, treeData, chain,
                      pendingValidations, networkNodes, now>>

\* service.validateBlock(blockProposal)
ValidateBlock(blockProposal) ==
    /\ last' = [op |-> "validateBlock", block |-> blockProposal,
                valid |-> validateBlockProposal(blockProposal, chain)]
    /\ UNCHANGED <<held, consentContract, dataIntegrity, treeData, chain, pendingValidations, networkNodes, now>>

\* a mutant of PurgeVotes: the votes are left as they were
PurgeVotesKeep(votes, nodeId) == votes

\* handleNodeFailure: the votes left once the failed node's votes are filtered out
PurgeVotes(votes, nodeId) == SelectSeq(votes, LAMBDA v : v.nodeId # nodeId)

\* engine.handleNodeFailure(nodeId)
HandleNodeFailure(nodeId) ==
    LET removal == removeNode(networkNodes, nodeId)
        remainingNodes == Cardinality(removal.nodes)
    IN /\ networkNodes' = removal.nodes
       /\ pendingValidations' =
              [h \in DOMAIN pendingValidations |->
                  [pendingValidations[h] EXCEPT !.votes = PurgeVotes(@, nodeId)]]
       /\ last' = [op |-> "handleNodeFailure", nodeId |-> nodeId,
                   removed |-> removal.removed, remainingNodes |-> remainingNodes,
                   requiredAgreement |-> RequiredAgreement(remainingNodes)]
       /\ UNCHANGED <<held, consentContract, dataIntegrity, treeData, chain, now>>

\* Ledger.appendBlock: a sealed block on the current head
AppendBlock(transactions) ==
    /\ Len(chain) < MaxChain
    /\ chain' = Append(chain, SealBlock(getChainLength(chain), now, transactions,
                                        getLatestBlock(chain).hash))
    /\ last' = [op |-> "appendBlock"]
    /\ UNCHANGED <<held, consentContract, dataIntegrity, treeData, pendingValidations, networkNodes, now>>

\* _validateChain(chain): links, block hashes and Merkle roots of the blocks
\* after the first
validateChain(c) ==
    IF Len(c) = 0 THEN FALSE
    ELSE \A i \in 2..Len(c) :
            /\ c[i].previousHash = c[i - 1].hash
            /\ c[i].hash = calculateBlockHash(c[i])
            /\ c[i].merkleRoot = calculateMerkleRoot(c[i].transactions)

\* a mutant of Longer: every valid candidate replaces the one held
LongerAny(length, longestLength) == TRUE

\* syncChain: whether a valid candidate of this length replaces the longest so far
Longer(length, longestLength) == length > longestLength

RECURSIVE FindLongest(_, _, _)
\* syncChain: the loop over the candidates from position i on; acc holds
\* longestValidChain, longestLength and longestChainNodeId
FindLongest(networkChains, i, acc) ==
    IF i > Len(networkChains) THEN acc
    ELSE LET candidate == networkChains[i]
         IN IF ~candidate.chainIsArray
            THEN FindLongest(networkChains, i + 1, acc)
            ELSE IF ~validateChain(candidate.chain)
            THEN FindLongest(networkChains, i + 1, acc)
            ELSE IF Longer(Len(candidate.chain), acc.longestLength)
            THEN FindLongest(networkChains, i + 1,
                     [found |-> TRUE, longestValidChain |-> candidate.chain,
                      longestLength |-> Len(candidate.chain),
                      longestChainNodeId |-> candidate.nodeId])
            ELSE FindLongest(networkChains, i + 1, acc)

\* syncChain(networkChains): the sync result against the local chain ch
syncChain(networkChains, ch) ==
    LET localChainLength == getChainLength(ch)
        longest == FindLongest(networkChains, 1,
                       [found |-> FALSE, longestValidChain |-> <<>>,
                        longestLength |-> localChainLength,
                        longestChainNodeId |-> 0])
    IN IF longest.found /\ longest.longestLength > localChainLength
       THEN [synced |-> TRUE, previousLength |-> localChainLength,
             newLength |-> longest.longestLength,
             sourceNode |-> longest.longestChainNodeId]
       ELSE [synced |-> FALSE, currentLength |-> localChainLength]

\* a candidate entry that is missing (null) and a block that is missing (null)
MissingCandidate == [missing |-> "candidate"]
NullBlock == [missing |-> "block"]

RECURSIVE validateChainThrows(_, _)
\* _validateChain(chain): whether the loop, from position i on, reads a field of
\* a null block (a TypeError) before a check returns false
validateChainThrows(c, i) ==
    IF i > Len(c) THEN FALSE
    ELSE IF c[i] = NullBlock \/ c[i - 1] = NullBlock THEN TRUE
    ELSE IF ~(/\ c[i].previousHash = c[i - 1].hash
              /\ c[i].hash = calculateBlockHash(c[i])
              /\ c[i].merkleRoot = calculateMerkleRoot(c[i].transactions))
    THEN FALSE
    ELSE validateChainThrows(c, i + 1)

RECURSIVE syncChainThrows(_, _)
\* syncChain: whether the loop over the candidates, from position i on, throws:
\* `const { nodeId, chain } of networkChains` on a null entry, or _validateChain
\* on an array that holds a null block
syncChainThrows(networkChains, i) ==
    IF i > Len(networkChains) THEN FALSE
    ELSE LET candidate == networkChains[i]
         IN IF candidate = MissingCandidate THEN TRUE
            ELSE IF ~candidate.chainIsArray
            THEN syncChainThrows(networkChains, i + 1)
            ELSE IF Len(candidate.chain) > 0 /\ validateChainThrows(candidate.chain, 2)
            THEN TRUE
            ELSE syncChainThrows(networkChains, i + 1)

\* what the caller gets when syncChain throws: no SyncResult
NoSyncResult == [synced |-> FALSE, error |-> "TypeError"]

\* a mutant of SyncChain: the chain reported as synced is written to the ledger
SyncChainAdopting(networkChains) ==
    LET result == syncChain(networkChains, chain)
    IN /\ last' = [op |-> "syncChain", networkChains |-> networkChains,
                   threw |-> FALSE, result |-> result]
       /\ chain' = IF result.synced
                   THEN networkChains[CHOOSE i \in 1..Len(networkChains) :
                            networkChains[i].nodeId = result.sourceNode].chain
                   ELSE chain
       /\ UNCHANGED <<held, consentContract, dataIntegrity, treeData, pendingValidations, networkNodes, now>>

\* engine.syncChain(networkChains): the result is returned, the ledger is not written
SyncChain(networkChains) ==
    /\ last' = LET threw == syncChainThrows(networkChains, 1)
               IN [op |-> "syncChain", networkChains |-> networkChains,
                   threw |-> threw,
                   result |-> IF threw THEN NoSyncResult
                              ELSE syncChain(networkChains, chain)]
    /\ UNCHANGED <<held, consentContract, dataIntegrity, treeData, chain, pendingValidations, networkNodes, now>>

RECURSIVE PeerChain(_)
\* a peer's chain of n blocks, every block sealed on its predecessor
PeerChain(n) ==
    IF n = 1 THEN <<GenesisBlock>>
    ELSE LET c == PeerChain(n - 1)
         IN Append(c, SealBlock(n - 1, 1, <<TxB>>, c[n - 1].hash))

\* the chain with the transactions of block k flipped, its hash and root left as sent
FlipTransaction(c, k) == [c EXCEPT ![k].transactions = <<TxA>>]

\* the chain whose last block is sealed, on its predecessor, under a wrong index
WrongIndex(c) ==
    [c EXCEPT ![Len(c)] = SealBlock(Len(c) + 4, 1, <<TxB>>, c[Len(c) - 1].hash)]

\* the chains peers send to a node whose chain has n blocks: one as long, one
\* longer, a still longer one with a transaction of block 0 flipped, the same with
\* a transaction of its last block flipped, one with a wrong index, and an empty one
PeerChains(n) ==
    {PeerChain(n), PeerChain(n + 1),
     FlipTransaction(PeerChain(n + 2), 1),
     FlipTransaction(PeerChain(n + 2), n + 2),
     WrongIndex(PeerChain(n + 1)),
     <<>>}

\* the candidates of one syncChain call: entry i comes from peer i + 1; a chain
\* that is not an array is an entry with chainIsArray false
NetworkChains(n) ==
    UNION {{[i \in 1..k |-> [nodeId |-> i + 1, chain |-> f[i].chain,
                             chainIsArray |-> f[i].chainIsArray]] :
              f \in [1..k -> {[chain |-> c, chainIsArray |-> TRUE] : c \in PeerChains(n)}
                             \cup {[chain |-> <<>>, chainIsArray |-> FALSE]}]} :
           k \in 0..MaxCands}

\* the candidate lists by the length of the local chain
CandidateLists == [n \in 1..MaxChain |-> NetworkChains(n)]

\* the chain with block k missing (null in its place)
WithNullBlock(c, k) == [c EXCEPT ![k] = NullBlock]

\* the chains of malformed candidates for a node whose chain has n blocks: a
\* longer chain with its first or its last block missing, a chain whose block 1
\* fails its checks before the missing last block is read, next to an empty
\* chain, a chain as long and a longer one
MalformedChains(n) ==
    {WithNullBlock(PeerChain(n + 1), 1),
     WithNullBlock(PeerChain(n + 1), n + 1),
     WithNullBlock(FlipTransaction(PeerChain(n + 2), 2), n + 2),
     <<>>, PeerChain(n), PeerChain(n + 1)}

\* the candidates of one syncChain call with malformed entries among them: a
\* missing entry, a chain that is not an array, and the chains above
MalformedNetworkChains(n) ==
    LET entries == {[chain |-> c, chainIsArray |-> TRUE] : c \in MalformedChains(n)}
                       \cup {[chain |-> <<>>, chainIsArray |-> FALSE]}
        Candidate(i, e) == [nodeId |-> i + 1, chain |-> e.chain,
                            chainIsArray |-> e.chainIsArray]
    IN UNION {{[i \in 1..k |-> IF f[i] = MissingCandidate THEN MissingCandidate
                               ELSE Candidate(i, f[i])] :
                 f \in [1..k -> entries \cup {MissingCandidate}]} :
              k \in 1..MaxCands}

MalformedLists == [n \in 1..MaxChain |-> MalformedNetworkChains(n)]

\* ------------------------------------------------------ Merkle tree: the calls
\* the records trees are built over: "a", "b", "c", ...
RecordNames == <<"a", "b", "c", "d", "e", "f", "g", "h", "i", "j", "k", "l">>

Record(i) == <<RecordNames[i]>>

\* a record no tree holds
NonMember == <<"z">>

\* the first n records in order
Prefix(n) == [i \in 1..n |-> Record(i)]

\* the record lists trees are constructed from: those of 0..MaxRecords distinct
\* records, one holding a record twice and one holding the empty string
RecordLists ==
    {Prefix(n) : n \in 0..MaxRecords}
    \cup {<<Record(1), Record(1)>>, <<EmptyString, Record(1), Record(2)>>}

\* the root of another tree
OtherRoot == MerkleTree(<<NonMember>>).root

\* the expectedRoot arguments: the tree's root, none, the empty string, another root
RootInputs(t) == {t.root, Null, EmptyString, OtherRoot}

\* the data arguments: the records of the tree, one it does not hold, the empty string
DataInputs(records) == {records[i] : i \in 1..Len(records)} \cup {NonMember, EmptyString}

\* a path entry that is null
MissingEntry == [present |-> FALSE, hash |-> Null, position |-> "undefined"]

\* structurally invalid and tampered forms of the proof g: no path, a path that is
\* a number, a path with a null entry, with an entry lacking its hash, with an
\* entry lacking its position, no leaf, no root, another tree's root
Malformed(g) ==
    {[g EXCEPT !.path = [kind |-> "missing", items |-> <<>>]],
     [g EXCEPT !.path = [kind |-> "number", items |-> <<>>]],
     [g EXCEPT !.path.items = Append(@, MissingEntry)],
     [g EXCEPT !.path.items =
         Append(@, [present |-> TRUE, hash |-> Null, position |-> "left"])],
     [g EXCEPT !.path.items =
         Append(@, [present |-> TRUE, hash |-> g.leaf, position |-> "undefined"])],
     [g EXCEPT !.leaf = Null],
     [g EXCEPT !.root = Null],
     [g EXCEPT !.root = OtherRoot]}

\* the last record of a list, the one left unpaired when the list is odd
LastRecord(records) == records[Len(records)]

\* the proof arguments that are not the proof of the data: no proof, and the
\* invalid forms of the proof of the last record
ProofInputs(t, records) ==
    {NoProof}
    \cup (IF Len(records) = 0 THEN {}
          ELSE Malformed(getProof(t, LastRecord(records)).proof))

\* the verifyProof calls: every record with its own proof against each root, and
\* the last record and a record not held with the invalid proofs and the proof of
\* the last record
VerifyInputs(t, records) ==
    {[data |-> records[i], proof |-> getProof(t, records[i]).proof, root |-> root] :
        i \in 1..Len(records), root \in RootInputs(t)}
    \cup {[data |-> data, proof |-> proof, root |-> root] :
            data \in {NonMember} \cup (IF Len(records) = 0 THEN {}
                                       ELSE {LastRecord(records)}),
            proof \in ProofInputs(t, records)
                      \cup (IF Len(records) = 0 THEN {}
                            ELSE {getProof(t, LastRecord(records)).proof}),
            root \in {t.root, Null}}

\* the entries of a batch: the first and the last record with their proofs and the
\* tree's root, and, for the last record, the entry with another root, with no
\* root, with no proof, with a path holding a null entry, and the entry of a record
\* that is not held
EntryInputs(t, records) ==
    IF Len(records) = 0 THEN {}
    ELSE LET data == LastRecord(records)
             g == getProof(t, data).proof
         IN {[data |-> records[1], proof |-> getProof(t, records[1]).proof,
              root |-> t.root],
             [data |-> data, proof |-> g, root |-> t.root],
             [data |-> data, proof |-> g, root |-> OtherRoot],
             [data |-> data, proof |-> g, root |-> Null],
             [data |-> data, proof |-> NoProof, root |-> t.root],
             [data |-> data, proof |-> [g EXCEPT !.path.items = Append(@, MissingEntry)],
              root |-> t.root],
             [data |-> NonMember, proof |-> g, root |-> t.root]}

\* the batches of at most MaxEntries entries
BatchInputs(t, records) ==
    UNION {[1..k -> EntryInputs(t, records)] : k \in 0..MaxEntries}

\* tree.getRoot()
GetRoot ==
    /\ last' = [op |-> "getRoot", result |-> getRoot(treeData.tree)]
    /\ UNCHANGED <<held, consentContract, dataIntegrity, treeData, chain, pendingValidations, networkNodes, now>>

\* a mutant of GetProof: the call keeps the proved leaf only
GetProofConsuming(data) ==
    LET result == getProof(treeData.tree, data)
    IN /\ last' = [op |-> "getProof", data |-> data, result |-> result]
       /\ treeData' = IF result.error = ""
                      THEN [treeData EXCEPT !.tree.leaves = <<result.proof.leaf>>]
                      ELSE treeData
       /\ UNCHANGED <<held, consentContract, dataIntegrity, chain, pendingValidations, networkNodes, now>>

\* tree.getProof(data): a derivation from leaves, levels and root, which it only reads
GetProof(data) ==
    /\ last' = [op |-> "getProof", data |-> data,
                result |-> getProof(treeData.tree, data)]
    /\ UNCHANGED <<held, consentContract, dataIntegrity, treeData, chain, pendingValidations, networkNodes, now>>

\* MerkleTree.verifyProof(data, proof, root)
VerifyProof(data, proof, root) ==
    /\ last' = [op |-> "verifyProof", data |-> data, proof |-> proof, root |-> root,
                result |-> verifyProof(data, proof, root)]
    /\ UNCHANGED <<held, consentContract, dataIntegrity, treeData, chain, pendingValidations, networkNodes, now>>

\* MerkleTree.verifyBatch(proofs)
VerifyBatch(proofs) ==
    /\ last' = [op |-> "verifyBatch", proofs |-> proofs, result |-> verifyBatch(proofs)]
    /\ UNCHANGED <<held, consentContract, dataIntegrity, treeData, chain, pendingValidations, networkNodes, now>>

\* the calls on one tree and on the static verifiers
NextMerkle ==
    \/ GetRoot
    \/ \E data \in DataInputs(treeData.records) : GetProof(data)
    \/ \E call \in VerifyInputs(treeData.tree, treeData.records) :
            VerifyProof(call.data, call.proof, call.root)
    \/ \E proofs \in BatchInputs(treeData.tree, treeData.records) : VerifyBatch(proofs)

\* a tree constructed over one of the record lists
InitMerkle ==
    /\ chain = <<GenesisBlock>>
    /\ pendingValidations = <<>>
    /\ networkNodes = 1..3
    /\ now = 1
    /\ \E records \in RecordLists :
          treeData = [tree |-> MerkleTree(records), records |-> records]
    /\ held = NoStatusHeld
    /\ consentContract = ConsentContractInit
    /\ dataIntegrity = DataIntegrityInit
    /\ last = [op |-> "construct"]

SpecMerkle == InitMerkle /\ [][NextMerkle]_vars

\* the calls on the engine that propose, validate and vote
NextConsensus ==
    \/ Tick
    \/ \E transactions \in Batches : ProposeBlock(transactions)
    \/ \E blockHash \in DOMAIN pendingValidations, isValidArg \in {"true", "false"},
          source \in VoteSources :
            VoteOnBlock(blockHash, isValidArg, source)
    \/ \E blockHash \in DOMAIN pendingValidations : VoteOnBlock(blockHash, "null", NodeId)
    \/ VoteOnBlock(UnknownHash, "true", NodeId)
    \/ \E blockHash \in DOMAIN pendingValidations \cup {UnknownHash} :
            CheckConsensus(blockHash)
    \/ \E blockHash \in DOMAIN pendingValidations :
            ValidateBlock(pendingValidations[blockHash].proposal.block)
    \/ \E nodeId \in {NodeId, 2, UnknownNode} : HandleNodeFailure(nodeId)
    \/ AppendBlock(<<TxA>>)

\* the ledger growing and the sync against the peers' chains (syncChain reads
\* neither the clock nor the roster)
NextSync ==
    \/ AppendBlock(<<TxA>>)
    \/ \E networkChains \in CandidateLists[Len(chain)] : SyncChain(networkChains)

\* the engine without the periodic sync
SpecConsensus == Init /\ [][NextConsensus]_vars

\* the ledger under the periodic sync, on a network of three nodes
InitSync == Init /\ networkNodes = 1..3

SpecSync == InitSync /\ [][NextSync]_vars

\* every operation that the ledger lives through, on a network of three nodes:
\* proposals, votes, a node failure, the ledger's own append and the sync against
\* one peer
NextLedger ==
    \/ ProposeBlock(<<TxA>>)
    \/ \E blockHash \in DOMAIN pendingValidations, isValidArg \in {"true", "false"} :
            VoteOnBlock(blockHash, isValidArg, 2)
    \/ HandleNodeFailure(NodeId)
    \/ AppendBlock(<<TxA>>)
    \/ \E networkChains \in {nc \in CandidateLists[Len(chain)] : Len(nc) = 1} :
            SyncChain(networkChains)

SpecLedger == InitSync /\ [][NextLedger]_vars

\* the same operations on an engine that keeps being called: some call that
\* changes the state is always made again
SpecLedgerFair == InitSync /\ [][NextLedger]_vars /\ WF_vars(NextLedger)

\* new ConsensusEngine(blockchain, nodeManager): the constructor stores its
\* arguments, an empty map and the threshold 0.67; it reads no roster and checks
\* nothing, so it never fails
constructorError(roster) == ""

\* the rosters an engine is constructed on, the empty one among them
ConfigRosterSizes == {0, 1, 3}

\* an engine exists for every roster on which the constructor did not fail
InitConfig ==
    /\ chain = <<GenesisBlock>>
    /\ pendingValidations = <<>>
    /\ \E k \in ConfigRosterSizes :
          /\ constructorError(1..k) = ""
          /\ networkNodes = 1..k
    /\ now = 1
    /\ treeData = [tree |-> MerkleTree(<<>>), records |-> <<>>]
    /\ held = NoStatusHeld
    /\ consentContract = ConsentContractInit
    /\ dataIntegrity = DataIntegrityInit
    /\ last = [op |-> "construct"]

\* proposals, votes and checks on a roster that stays as it was at construction
NextConfig ==
    \/ Tick
    \/ \E transactions \in {<<TxA>>, <<TxB>>} : ProposeBlock(transactions)
    \/ \E blockHash \in DOMAIN pendingValidations, isValidArg \in {"true", "false"} :
            VoteOnBlock(blockHash, isValidArg, NodeId)
    \/ \E blockHash \in DOMAIN pendingValidations \cup {UnknownHash} :
            CheckConsensus(blockHash)

SpecConfig == InitConfig /\ [][NextConfig]_vars

\* the ledger under a sync whose candidates may be malformed
NextSyncMalformed ==
    \/ AppendBlock(<<TxA>>)
    \/ \E networkChains \in MalformedLists[Len(chain)] : SyncChain(networkChains)

SpecSyncMalformed == InitSync /\ [][NextSyncMalformed]_vars

\* consent.grantConsent(patientId, clinicianId, consentType, expiresAt, purpose)
\* in a block of timestamp now: a failed require reverts the call
GrantConsent(patientId, clinicianId, consentType, expiresAt) ==
    LET error == grantConsentError(consentContract, patientId, clinicianId,
                                   consentType, now)
    IN /\ Len(consentContract.consents) < MaxConsents
       /\ consentContract' =
              IF error = "" THEN grantConsent(consentContract, patientId, clinicianId,
                                              consentType, expiresAt, now)
              ELSE consentContract
       /\ last' = [op |-> "grantConsent", patientId |-> patientId,
                   clinicianId |-> clinicianId, consentType |-> consentType,
                   expiresAt |-> expiresAt, error |-> error]
       /\ UNCHANGED <<held, dataIntegrity, treeData, chain, pendingValidations,
                      networkNodes, now>>

\* consent.connect(sender).revokeConsent(consentId)
RevokeConsent(consentId, sender) ==
    LET error == revokeConsentError(consentContract, consentId, sender)
    IN /\ consentContract' = IF error = "" THEN revokeConsent(consentContract, consentId)
                             ELSE consentContract
       /\ last' = [op |-> "revokeConsent", consentId |-> consentId, sender |-> sender,
                   error |-> error]
       /\ UNCHANGED <<held, dataIntegrity, treeData, chain, pendingValidations,
                      networkNodes, now>>

\* consent.hasValidConsent(patientId, clinicianId, consentType), a view
HasValidConsent(key) ==
    /\ last' = [op |-> "hasValidConsent", key |-> key,
                exists |-> hasValidConsent(consentContract, key, now)]
    /\ UNCHANGED <<held, consentContract, dataIntegrity, treeData, chain,
                   pendingValidations, networkNodes, now>>

\* the consent contract over time: grants by an authorized pair and with the zero
\* patient address, revocations of the records there are and of one there is not
NextConsent ==
    \/ Tick
    \/ \E patientId \in Patients \cup {ZeroAddress}, clinicianId \in Clinicians,
          consentType \in ConsentTypes, expiresAt \in ExpiryInputs :
            GrantConsent(patientId, clinicianId, consentType, expiresAt)
    \/ \E consentId \in 1..(Len(consentContract.consents) + 1), sender \in Senders :
            RevokeConsent(consentId, sender)
    \/ \E key \in ConsentKeys : HasValidConsent(key)

SpecConsent == InitSync /\ [][NextConsent]_vars

\* dataIntegrity.connect(sender).storeMerkleRoot(root, recordSetId, recordCount)
\* in a block of timestamp now: a failed require reverts the call
StoreMerkleRoot(root, recordSetId, recordCount, sender) ==
    LET error == storeMerkleRootError(dataIntegrity, root, recordSetId, recordCount,
                                      sender)
    IN /\ dataIntegrity' =
              IF error = "" THEN storeMerkleRoot(dataIntegrity, root, recordSetId,
                                                 recordCount, sender, now)
              ELSE dataIntegrity
       /\ last' = [op |-> "storeMerkleRoot", root |-> root,
                   recordSetId |-> recordSetId, recordCount |-> recordCount,
                   sender |-> sender, error |-> error]
       /\ UNCHANGED <<held, consentContract, treeData, chain, pendingValidations,
                      networkNodes, now>>

\* dataIntegrity.verifyMerkleRoot(root)
VerifyMerkleRoot(root) ==
    /\ last' = [op |-> "verifyMerkleRoot", root |-> root,
                result |-> verifyMerkleRoot(dataIntegrity, root)]
    /\ UNCHANGED <<held, consentContract, dataIntegrity, treeData, chain,
                   pendingValidations, networkNodes, now>>

\* the data-integrity contract: roots stored and looked up
NextIntegrity ==
    \/ \E root \in RootValues, recordSetId \in RecordSetIds,
          recordCount \in RecordCounts, sender \in IntegritySenders :
            StoreMerkleRoot(root, recordSetId, recordCount, sender)
    \/ \E root \in RootValues : VerifyMerkleRoot(root)

SpecIntegrity == InitSync /\ [][NextIntegrity]_vars

\* the engine with a caller that keeps the status of a check across later votes
NextSnapshot ==
    \/ Tick
    \/ ProposeBlock(<<TxA>>)
    \/ \E blockHash \in DOMAIN pendingValidations, isValidArg \in {"true", "false"} :
            VoteOnBlock(blockHash, isValidArg, NodeId)
    \/ HandleNodeFailure(NodeId)
    \/ \E blockHash \in DOMAIN pendingValidations : KeepConsensus(blockHash)
    \/ CheckConsensus(UnknownHash)

SpecSnapshot == InitSync /\ [][NextSnapshot]_vars

\* every call, on the engine and on the tree
Next == NextConsensus \/ NextSync \/ NextLedger \/ NextMerkle \/ NextSnapshot
            \/ NextConfig \/ NextSyncMalformed \/ NextConsent \/ NextIntegrity

Spec == Init /\ [][Next]_vars

\* ------------------------------------------------------------ claims C1..C10
\* the ConsensusStatus the last call returned, when it returned one
ReturnedConsensus ==
    IF last.op = "checkConsensus" THEN last.consensus
    ELSE IF last.op \in {"proposeBlock", "voteOnBlock"} /\ last.error = ""
    THEN last.consensus
    ELSE [blockHash |-> UnknownHash, found |-> FALSE, reached |-> FALSE,
          reason |-> "no status returned"]

\* C1: whenever a call observes reached = true for a pending proposal, the
\* candidate block of that proposal is on the ledger exactly once and is its head.
C1_ReachedIsAppended ==
    (ReturnedConsensus.found /\ ReturnedConsensus.reached) =>
        /\ Cardinality({i \in 1..Len(chain) :
                           chain[i].hash = ReturnedConsensus.blockHash}) = 1
        /\ getLatestBlock(chain).hash = ReturnedConsensus.blockHash

\* C2: on a 3-node network an affirmative voteOnBlock relayed for a node that has
\* no vote yet on a proposal of 2 transactions adds one to agreementCount, and
\* reached is reported exactly when that count is 3 (2 votes: not reached).
C2_DistinctVotesAccumulate ==
    [][(/\ last'.op = "voteOnBlock"
        /\ last'.error = ""
        /\ last'.isValid = "true"
        /\ Cardinality(networkNodes) = 3
        /\ Len(pendingValidations[last'.blockHash].proposal.block.transactions) = 2
        /\ \A i \in 1..Len(pendingValidations[last'.blockHash].votes) :
              pendingValidations[last'.blockHash].votes[i].nodeId # last'.source)
       => /\ last'.consensus.agreementCount =
                AgreementCount(pendingValidations[last'.blockHash].votes) + 1
          /\ last'.consensus.reached = (last'.consensus.agreementCount >= 3)]_vars

\* C3: every status returned for a pending proposal has totalNodes the size of the
\* current roster, requiredAgreement = ceil(totalNodes * 0.67) (1, 3, 3, 7 for 1, 3,
\* 4, 10 nodes), agreementCount the number of recorded votes with isValid = true,
\* and reached exactly when agreementCount >= requiredAgreement.
C3_QuorumRule ==
    LET status == ReturnedConsensus
    IN status.found =>
        /\ status.totalNodes = Cardinality(networkNodes)
        /\ status.requiredAgreement * 100 >= status.totalNodes * 67
        /\ (status.requiredAgreement - 1) * 100 < status.totalNodes * 67
        /\ status.totalNodes = 1 => status.requiredAgreement = 1
        /\ status.totalNodes = 3 => status.requiredAgreement = 3
        /\ status.totalNodes = 4 => status.requiredAgreement = 3
        /\ status.totalNodes = 10 => status.requiredAgreement = 7
        /\ status.agreementCount =
              Cardinality({i \in 1..Len(pendingValidations[status.blockHash].votes) :
                              pendingValidations[status.blockHash].votes[i].isValid})
        /\ status.reached <=> (status.agreementCount >= status.requiredAgreement)

C3_Witness ==
    /\ ReturnedConsensus.found
    /\ ReturnedConsensus.totalNodes = 3
    /\ ReturnedConsensus.requiredAgreement = 3
    /\ ReturnedConsensus.agreementCount = 0
    /\ ~ReturnedConsensus.reached
    /\ \E i \in 1..Len(ReturnedConsensus.votes) : ~ReturnedConsensus.votes[i].isValid

\* C4: a pending proposal never holds two votes of one node, and a voteOnBlock by
\* a node that already voted returns that first vote and leaves the votes, and so
\* agreementCount, as they were.
C4_OneVotePerNode ==
    /\ [](\A h \in DOMAIN pendingValidations :
            \A i, j \in 1..Len(pendingValidations[h].votes) :
                pendingValidations[h].votes[i].nodeId = pendingValidations[h].votes[j].nodeId
                    => i = j)
    /\ [][(/\ last'.op = "voteOnBlock"
           /\ last'.error = ""
           /\ \E i \in 1..Len(pendingValidations[last'.blockHash].votes) :
                 pendingValidations[last'.blockHash].votes[i].nodeId = last'.vote.nodeId)
          => /\ pendingValidations' = pendingValidations
             /\ \E i \in 1..Len(pendingValidations[last'.blockHash].votes) :
                   pendingValidations[last'.blockHash].votes[i] = last'.vote
             /\ last'.consensus.agreementCount =
                   AgreementCount(pendingValidations[last'.blockHash].votes)]_vars

C4_Witness ==
    /\ last.op = "voteOnBlock"
    /\ last.error = ""
    /\ last.isValid = "false"
    /\ last.vote.isValid
    /\ Len(pendingValidations[last.blockHash].votes) = 1

\* C5: validateBlockProposal returns true exactly when every transaction is valid,
\* the Merkle root and the block hash re-derive, previousHash is the head's hash
\* and index is the chain length.
C5_ValidateExact ==
    last.op = "validateBlock" =>
        (last.valid <=>
            /\ \A i \in 1..Len(last.block.transactions) :
                  isValidTransaction(last.block.transactions[i])
            /\ last.block.merkleRoot = calculateMerkleRoot(last.block.transactions)
            /\ last.block.hash = calculateBlockHash(last.block)
            /\ last.block.previousHash = getLatestBlock(chain).hash
            /\ last.block.index = getChainLength(chain))

\* C6: a successful proposeBlock returns a block of the submitted transactions
\* with index the chain length, previousHash the head's hash and the ledger's
\* Merkle root and hash, registers it under its hash, and leaves that proposal
\* with exactly one vote: the proposer's, with isValid = true.
C6_ProposalRegistered ==
    (last.op = "proposeBlock" /\ last.error = "") =>
        /\ last.block.transactions = last.transactions
        /\ last.block.index = Len(chain)
        /\ last.block.previousHash = chain[Len(chain)].hash
        /\ last.block.merkleRoot = calculateMerkleRoot(last.transactions)
        /\ last.block.hash = calculateBlockHash(last.block)
        /\ last.proposalId = last.block.hash
        /\ last.proposalId \in DOMAIN pendingValidations
        /\ pendingValidations[last.proposalId].proposal.block = last.block
        /\ Len(pendingValidations[last.proposalId].votes) = 1
        /\ pendingValidations[last.proposalId].votes[1] = last.vote
        /\ last.vote.nodeId = NodeId
        /\ last.vote.isValid
        /\ last.vote.blockHash = last.proposalId

C6_Witness ==
    /\ last.op = "proposeBlock"
    /\ last.error = ""
    /\ Len(last.transactions) = 2
    /\ Len(chain) = 2
    /\ Cardinality(DOMAIN pendingValidations) = 2

\* C7: a proposeBlock whose batch holds a transaction failing isValidTransaction
\* fails with the invalid-batch error and changes neither the pending proposals
\* (so no vote is cast), nor the chain, nor the roster.
C7_InvalidBatchRejected ==
    [][(/\ last'.op = "proposeBlock"
        /\ \E i \in 1..Len(last'.transactions) :
              ~isValidTransaction(last'.transactions[i]))
       => /\ last'.error = "Invalid transactions found"
          /\ pendingValidations' = pendingValidations
          /\ chain' = chain
          /\ networkNodes' = networkNodes]_vars

C7_Witness ==
    /\ last.op = "proposeBlock"
    /\ last.error = "Invalid transactions found"
    /\ Len(last.transactions) = 2
    /\ isValidTransaction(last.transactions[1])
    /\ ~isValidTransaction(last.transactions[2])
    /\ DOMAIN pendingValidations # {}

\* the candidates of the last syncChain call that pass the engine's validation
ValidCandidates ==
    {i \in 1..Len(last.networkChains) :
        /\ last.networkChains[i].chainIsArray
        /\ validateChain(last.networkChains[i].chain)}

\* C8: syncChain reports synced exactly when a candidate passes validation and is
\* strictly longer than the local chain; the chain it selects is a longest valid
\* candidate, strictly longer than the local chain.
C8_LongestValidChain ==
    last.op = "syncChain" =>
        /\ last.result.synced <=>
              \E i \in ValidCandidates :
                  Len(last.networkChains[i].chain) > Len(chain)
        /\ last.result.synced =>
              /\ last.result.newLength > Len(chain)
              /\ last.result.previousLength = Len(chain)
              /\ \E i \in ValidCandidates :
                    /\ last.networkChains[i].nodeId = last.result.sourceNode
                    /\ Len(last.networkChains[i].chain) = last.result.newLength
              /\ \A j \in ValidCandidates :
                    Len(last.networkChains[j].chain) <= last.result.newLength

C8_Witness ==
    /\ last.op = "syncChain"
    /\ last.result.synced
    /\ Len(chain) = 2
    /\ \E i, j \in ValidCandidates :
          /\ Len(last.networkChains[i].chain) = Len(chain)
          /\ Len(last.networkChains[j].chain) > Len(chain)

\* C9: the candidate syncChain reports as the synced chain has every block, the
\* one at position 0 included, intact: its hash and Merkle root re-derive, its
\* previousHash is its predecessor's hash and its index is its position.
C9_NoCorruptedChainAdopted ==
    (last.op = "syncChain" /\ last.result.synced) =>
        \A k \in 1..Len(last.networkChains) :
            last.networkChains[k].nodeId = last.result.sourceNode =>
                LET c == last.networkChains[k].chain
                IN \A i \in 1..Len(c) :
                      /\ c[i].hash = calculateBlockHash(c[i])
                      /\ c[i].merkleRoot = calculateMerkleRoot(c[i].transactions)
                      /\ c[i].index = i - 1
                      /\ i > 1 => c[i].previousHash = c[i - 1].hash

\* C10: after syncChain returns synced = true with newLength = L the local chain
\* is the selected candidate: its length is L and its head the candidate's last block.
C10_SyncReplacesChain ==
    (last.op = "syncChain" /\ last.result.synced) =>
        /\ getChainLength(chain) = last.result.newLength
        /\ \E k \in 1..Len(last.networkChains) :
              /\ last.networkChains[k].nodeId = last.result.sourceNode
              /\ getLatestBlock(chain) =
                    last.networkChains[k].chain[Len(last.networkChains[k].chain)]

\* ----------------------------------------------------------- claims C11..C20
\* C11: handleNodeFailure(n) leaves n out of the roster, leaves no vote of n in any
\* pending proposal, leaves the votes of every other node (and the proposals) as
\* they were, and returns requiredAgreement = ceil(remainingNodes * 0.67) over the
\* roster that is left; every later checkConsensus reports that same quantity.
C11_NodeFailurePurges ==
    /\ [][last'.op = "handleNodeFailure" =>
            /\ last'.nodeId \notin networkNodes'
            /\ networkNodes' = networkNodes \ {last'.nodeId}
            /\ DOMAIN pendingValidations' = DOMAIN pendingValidations
            /\ \A h \in DOMAIN pendingValidations :
                  /\ pendingValidations'[h].proposal = pendingValidations[h].proposal
                  /\ \A i \in 1..Len(pendingValidations'[h].votes) :
                        pendingValidations'[h].votes[i].nodeId # last'.nodeId
                  /\ pendingValidations'[h].votes =
                        SelectSeq(pendingValidations[h].votes,
                                  LAMBDA v : v.nodeId # last'.nodeId)
            /\ last'.remainingNodes = Cardinality(networkNodes')
            /\ last'.requiredAgreement * 100 >= last'.remainingNodes * 67
            /\ (last'.requiredAgreement - 1) * 100 < last'.remainingNodes * 67]_vars
    /\ []((last.op = "checkConsensus" /\ last.consensus.found) =>
            /\ last.consensus.totalNodes = Cardinality(networkNodes)
            /\ last.consensus.requiredAgreement * 100 >= Cardinality(networkNodes) * 67
            /\ (last.consensus.requiredAgreement - 1) * 100
                  < Cardinality(networkNodes) * 67)

C11_Witness ==
    /\ last.op = "handleNodeFailure"
    /\ last.nodeId = NodeId
    /\ last.removed
    /\ last.remainingNodes = 3
    /\ last.requiredAgreement = 3
    /\ \E h \in DOMAIN pendingValidations : pendingValidations[h].votes = <<>>

C13_ProofsVerify ==
    /\ \A i \in 1..Len(treeData.records) :
          LET r == treeData.records[i]
              produced == getProof(treeData.tree, r)
          IN /\ produced.error = ""
             /\ getRoot(treeData.tree).error = ""
             /\ verifyProof(r, produced.proof, getRoot(treeData.tree).root)
                    = [threw |-> FALSE, value |-> TRUE]
    /\ (/\ last.op = "verifyProof"
        /\ last.root = treeData.tree.root
        /\ \E i \in 1..Len(treeData.records) :
              /\ last.data = treeData.records[i]
              /\ last.proof = getProof(treeData.tree, treeData.records[i]).proof)
       => last.result = [threw |-> FALSE, value |-> TRUE]

C13_Witness ==
    /\ last.op = "verifyProof"
    /\ Len(treeData.records) = 5
    /\ last.data = treeData.records[5]
    /\ last.proof = getProof(treeData.tree, last.data).proof
    /\ last.root = treeData.tree.root
    /\ Len(last.proof.path.items) = 3
    /\ last.proof.path.items[1].hash = last.proof.leaf
    /\ last.result.value

\* C14: the root of a tree over n >= 1 records is the reference computation: the
\* leaves are the hashes of the records in order, every further level holds the
\* hashes H(left + right) of the adjacent pairs of the level below, the last node
\* paired with itself when that level is odd, the levels stop at the first level of
\* one node and that node is the root; over [a, b, c] the root is
\* H(H(H(a) + H(b)) + H(H(c) + H(c))).
C14_RootIsReference ==
    LET t == treeData.tree
        records == treeData.records
    IN Len(records) >= 1 =>
        /\ getRoot(t) = [error |-> "", root |-> t.root]
        /\ t.leaves = [i \in 1..Len(records) |-> hash(records[i])]
        /\ t.levels[1] = t.leaves
        /\ \A k \in 1..(Len(t.levels) - 1) :
              /\ Len(t.levels[k]) > 1
              /\ Len(t.levels[k + 1]) = (Len(t.levels[k]) + 1) \div 2
              /\ \A i \in 1..Len(t.levels[k + 1]) :
                    LET left == t.levels[k][2 * i - 1]
                        right == IF 2 * i <= Len(t.levels[k])
                                 THEN t.levels[k][2 * i] ELSE left
                    IN t.levels[k + 1][i] = <<"H", <<left, right>>>>
        /\ t.levels[Len(t.levels)] = <<t.root>>
        /\ records = <<Record(1), Record(2), Record(3)>> =>
              t.root = <<"H", << <<"H", << <<"H", Record(1)>>, <<"H", Record(2)>> >> >>,
                                 <<"H", << <<"H", Record(3)>>, <<"H", Record(3)>> >> >> >> >>

C14_Witness ==
    /\ treeData.records = <<Record(1), Record(2), Record(3)>>
    /\ last.op = "getRoot"
    /\ last.result.error = ""
    /\ last.result.root =
          hash(Concat(hash(Concat(hash(Record(1)), hash(Record(2)))),
                      hash(Concat(hash(Record(3)), hash(Record(3))))))

\* C15: verifyBatch(entries) returns true exactly when entries is non-empty and
\* every entry {record, proof, root} verifies on its own under
\* verifyProof(record, proof, root).
C15_BatchIffAll ==
    last.op = "verifyBatch" =>
        ((last.result = [threw |-> FALSE, value |-> TRUE]) <=>
            /\ Len(last.proofs) >= 1
            /\ \A i \in 1..Len(last.proofs) :
                  verifyProof(last.proofs[i].data, last.proofs[i].proof,
                              last.proofs[i].root) = [threw |-> FALSE, value |-> TRUE])

\* C16: for the proof the tree produces for a record it holds and every supplied
\* expectedRoot (the empty string included), verifyProof returns true exactly when
\* the expectedRoot is the tree's root; the proof of "c" in the tree over [a, b, c]
\* has a path of length 2.
C16_VerifyIffRoot ==
    (/\ last.op = "verifyProof"
     /\ last.root # Null
     /\ \E i \in 1..Len(treeData.records) :
           /\ last.data = treeData.records[i]
           /\ last.proof = getProof(treeData.tree, treeData.records[i]).proof)
    => /\ ~last.result.threw
       /\ last.result.value <=> (last.root = treeData.tree.root)
       /\ (treeData.records = <<Record(1), Record(2), Record(3)>>
              /\ last.data = Record(3))
            => Len(last.proof.path.items) = 2

\* C17, as stated: on every tree, getProof of a record whose hash is no leaf of
\* the tree fails with the record-not-found error.
C17_NotFoundOnEveryTree ==
    (/\ last.op = "getProof"
     /\ \A i \in 1..Len(treeData.tree.leaves) :
           treeData.tree.leaves[i] # hash(last.data))
    => last.result.error = "Data item not found in tree"

\* C17, amended: on every tree that has a leaf, getProof of a record whose hash is
\* no leaf fails with the record-not-found error; on the tree without leaves it
\* fails with the empty-tree error; either way leaves, levels and root stay as
\* they were.
C17_NotFoundOnNonEmptyTree ==
    [][(/\ last'.op = "getProof"
        /\ \A i \in 1..Len(treeData.tree.leaves) :
              treeData.tree.leaves[i] # hash(last'.data))
       => /\ Len(treeData.tree.leaves) >= 1 =>
                last'.result.error = "Data item not found in tree"
          /\ Len(treeData.tree.leaves) = 0 =>
                last'.result.error = "Tree is empty"
          /\ last'.result.proof = NoProof
          /\ treeData' = treeData]_vars

C17_Witness ==
    /\ last.op = "getProof"
    /\ last.data = NonMember
    /\ Len(treeData.tree.leaves) = 3
    /\ last.result.error = "Data item not found in tree"

\* C18: on the tree constructed over zero records getRoot returns H("") without
\* an error, and the only call that fails is getProof, with the empty-tree error.
C18_EmptyTreeHasRoot ==
    Len(treeData.records) = 0 =>
        /\ last.op = "getRoot" =>
              last.result = [error |-> "", root |-> hash(EmptyString)]
        /\ last.op = "getProof" => last.result.error = "Tree is empty"
        /\ last.op \in {"verifyProof", "verifyBatch"} => ~last.result.threw

\* C19: verifyProof is a total predicate: it never throws, and for a proof that is
\* structurally invalid (no proof, no path, a path that is no list, a path
\* entry that is missing or lacks its hash or its position, no leaf, no root) it
\* returns false.
C19_VerifyIsTotal ==
    last.op = "verifyProof" =>
        /\ ~last.result.threw
        /\ (\/ ~last.proof.present
            \/ last.proof.path.kind # "array"
            \/ \E i \in 1..Len(last.proof.path.items) :
                  \/ ~last.proof.path.items[i].present
                  \/ last.proof.path.items[i].hash = Null
                  \/ last.proof.path.items[i].position \notin {"left", "right"}
            \/ last.proof.leaf = Null
            \/ last.proof.root = Null)
           => last.result = [threw |-> FALSE, value |-> FALSE]

C21_CheckConsensusPure ==
    /\ [][last'.op = "checkConsensus" =>
            /\ pendingValidations' = pendingValidations
            /\ networkNodes' = networkNodes
            /\ chain' = chain
            /\ last'.blockHash \notin DOMAIN pendingValidations =>
                  (~last'.consensus.found /\ ~last'.consensus.reached)
            /\ last'.blockHash \in DOMAIN pendingValidations =>
                  last'.consensus.votes = pendingValidations[last'.blockHash].votes
            /\ (held' # held) =>
                  held'.votes = pendingValidations[last'.blockHash].votes]_vars
    /\ [][last'.op # "checkConsensus" => held' = held]_vars

C21_Witness ==
    /\ held.kept
    /\ held.votes = <<>>
    /\ last.op = "voteOnBlock"
    /\ last.error = ""
    /\ last.blockHash = held.blockHash
    /\ Len(pendingValidations[held.blockHash].votes) = 1

\* C22: every pending proposal registered by proposeBlock is eventually removed
\* from the pending set, with its votes, once it is abandoned (its previousHash is
\* no longer the hash of the head).
C22_FirstProposal == BlockProposal(<<TxA>>, <<GenesisBlock>>, 1).hash

C22_PendingEventuallyRemoved ==
    (/\ C22_FirstProposal \in DOMAIN pendingValidations
     /\ pendingValidations[C22_FirstProposal].proposal.block.previousHash
            # getLatestBlock(chain).hash)
        ~> (C22_FirstProposal \notin DOMAIN pendingValidations)

\* C23: constructing an engine with an empty roster fails, so checkConsensus is
\* never evaluated on an engine whose roster was empty at construction (the roster
\* does not change in this specification).
C23_NoEngineOnEmptyRoster ==
    (last.op = "checkConsensus" /\ last.blockHash \in DOMAIN pendingValidations)
        => networkNodes # {}

\* C24: syncChain never fails as a whole because of a malformed candidate: a
\* missing entry, a chain that is not a list or is empty, or a chain that holds a
\* malformed block is discarded, and the call returns a SyncResult.
C24_SyncNeverThrows == last.op = "syncChain" => ~last.threw

\* C25: in the ConsentManagement contract each (patient, clinician, consentType)
\* has at most one record that is Granted and not expired; while there is one,
\* grantConsent reverts with "Active consent already exists"; and hasValidConsent
\* is true exactly when there is one.
C25_ValidConsents(key) ==
    {i \in 1..Len(consentContract.consents) :
        /\ <<consentContract.consents[i].patientId,
             consentContract.consents[i].clinicianId,
             consentContract.consents[i].consentType>> = key
        /\ consentContract.consents[i].status = "Granted"
        /\ ~Expired(consentContract.consents[i], now)}

C25_OneValidConsent ==
    \A key \in ConsentKeys :
        /\ Cardinality(C25_ValidConsents(key)) <= 1
        /\ hasValidConsent(consentContract, key, now) <=> C25_ValidConsents(key) # {}
        /\ C25_ValidConsents(key) # {} =>
              grantConsentError(consentContract, key[1], key[2], key[3], now)
                  = "Active consent already exists"

\* C26: in the DataIntegrity contract storeMerkleRoot reverts for a root stored
\* before (with "Root already stored" when the call is otherwise valid), with
\* "Invalid root" for the zero root and with "Invalid record count" for a count of 0
\* on a non-zero root and record set; a reverted call leaves the records and the
\* root lists unchanged; each root appears at most once in the enumeration, and
\* the record of a stored root is never overwritten.
C26_StoredRoots == {dataIntegrity.allRoots[i] : i \in 1..Len(dataIntegrity.allRoots)}

C27_Agreement ==
    \A h1, h2 \in DOMAIN pendingValidations :
        (/\ h1 # h2
         /\ pendingValidations[h1].proposal.block.index
                = pendingValidations[h2].proposal.block.index
         /\ pendingValidations[h1].proposal.block.previousHash
                = pendingValidations[h2].proposal.block.previousHash)
            => ~(/\ checkConsensus(pendingValidations, h1, networkNodes).reached
                 /\ checkConsensus(pendingValidations, h2, networkNodes).reached)

\* C28: checkConsensus never reports reached = true for a pending proposal that
\* holds no vote with isValid = true.
C28_ReachedNeedsAffirmativeVote ==
    (/\ last.op = "checkConsensus"
     /\ last.consensus.found
     /\ last.consensus.reached)
        => \E i \in 1..Len(last.consensus.votes) : last.consensus.votes[i].isValid = TRUE

\* C29: stability: once checkConsensus(h) has reported reached = true for a
\* pending proposal h, the next call of voteOnBlock, proposeBlock or
\* handleNodeFailure leaves checkConsensus(h) reporting reached = true.
C29_ReachedIsStable ==
    [][(/\ last.op = "checkConsensus"
        /\ last.consensus.found
        /\ last.consensus.reached
        /\ last'.op \in {"voteOnBlock", "proposeBlock", "handleNodeFailure"})
          => checkConsensus(pendingValidations', last.blockHash, networkNodes').reached]_vars

\* C30: for every record list of odd length n >= 3, the tree built over the list
\* and the tree built over the list with its last record appended once more have
\* the same root.
C30_WithLastAgain == Append(treeData.records, treeData.records[Len(treeData.records)])

C30_DuplicatedLastSameRoot ==
    (Len(treeData.records) >= 3 /\ Len(treeData.records) % 2 = 1)
        => /\ MerkleTree(C30_WithLastAgain).root = treeData.tree.root
           /\ MerkleTree(C30_WithLastAgain).root = MerkleTree(treeData.records).root
           /\ C30_WithLastAgain # treeData.records

C30_Witness ==
    /\ Len(treeData.records) = 5
    /\ last.op = "getRoot"
    /\ last.result.error = ""
    /\ last.result.root = MerkleTree(C30_WithLastAgain).root
    /\ Len(MerkleTree(C30_WithLastAgain).leaves) = 6
====
